---------------------------- MODULE Spec2Model ----------------------------
(***************************************************************************)
(* A model of dse-static-pipeline/create_verticals.py: the paragraph       *)
(* segmentation loop of process_tei, the two formatters run_udp and        *)
(* run_spacy, the empty-element post-processing, the retry loop of         *)
(* create_vertical and the corpus loop of main.                            *)
(*                                                                         *)
(* Strings that the code only compares are TLA+ strings.  Strings that the *)
(* code measures, strips or slices are sequences of one-character strings. *)
(* A text file (and every vertical string, which the code builds from      *)
(* whole lines ending in "\n") is the sequence of its lines; a line is the *)
(* tuple of its tab-separated fields, so a structural tag is a 1-tuple.    *)
(***************************************************************************)
EXTENDS Integers, Sequences, FiniteSets, TLC

VARIABLES
    call,        \* harness of the pure functions: the function and its input
    ret,         \* harness of the pure functions: what the function returned
    pc,          \* main: "main" | "docs" | "exit" | "crashed"
    args,        \* main: the parsed command line ([co |-> BOOLEAN])
    backend,     \* cfg["backend"]
    k,           \* main: number of src_data items the loop has taken
    fatal,       \* main: the fatal configuration failure of the current item
    logged,      \* main: whether that failure was printed
    vertical,    \* create_vertical: the lines of the open / last written file
    docN,        \* create_vertical: N = len(corpora["tei"])
    n,           \* create_vertical: index of the document in the retry loop
    i,           \* create_vertical: attempts made for document n
    plan,        \* environment: the N failures it has for document n
    docStatus,   \* per document: "pending" | "success" | "exhausted"
    tokens       \* time["tokens"]

vars == <<call, ret, pc, args, backend, k, fatal, logged, vertical, docN, n, i,
          plan, docStatus, tokens>>

\* ------------------------------------------------------------------ bounds

\* longest backend token stream / payload enumerated for the formatters
MaxStream == 4
\* most text nodes a selection expression returns in the segmenter harness
MaxSpans == 3
\* most documents of one corpus
MaxDocs == 2
\* number of items of src_data
NumCorpora == 2
\* most consecutive failures the environment plans for one document
MaxFail == 11

\* ---------------------------------------------------------------- strings

None == "None"

PAR_SEP == "PaRaSeP"

\* the characters of the strings the model measures (Python str as a sequence)
Chars(s) ==
    CASE s = PAR_SEP -> <<"P", "a", "R", "a", "S", "e", "P">>
      [] s = "Hello" -> <<"H", "e", "l", "l", "o">>
      [] s = "world" -> <<"w", "o", "r", "l", "d">>
      [] s = "Foo"   -> <<"F", "o", "o">>
      [] s = ""      -> <<>>
      [] OTHER       -> <<s>>

IsWs(c) == c \in {" ", "\n", "\r", "\t"}

\* str.replace("\n", " ").replace("\r", " ")
ReplaceBreaks(s) == [j \in 1..Len(s) |-> IF s[j] \in {"\n", "\r"} THEN " " ELSE s[j]]

RECURSIVE LStrip(_)
\* sub("^\\s*", "", text)
LStrip(s) == IF s # <<>> /\ IsWs(Head(s)) THEN LStrip(Tail(s)) ELSE s

RECURSIVE RStrip(_)
RStrip(s) ==
    IF s # <<>> /\ IsWs(s[Len(s)]) THEN RStrip(SubSeq(s, 1, Len(s) - 1)) ELSE s

\* str.strip()
Strip(s) == RStrip(LStrip(s))

\* text[m:]
Drop(s, m) == IF m >= Len(s) THEN <<>> ELSE SubSeq(s, m + 1, Len(s))

RECURSIVE CountSub(_, _)
\* str.count(sub): non-overlapping occurrences, left to right
CountSub(s, sub) ==
    IF Len(s) < Len(sub) THEN 0
    ELSE IF SubSeq(s, 1, Len(sub)) = sub
         THEN 1 + CountSub(Drop(s, Len(sub)), sub)
         ELSE CountSub(Tail(s), sub)

RECURSIVE RemovePairs(_, _, _)
\* vertical.replace(first + "\n" + second + "\n", ""): every non-overlapping
\* occurrence of the two adjacent lines, left to right, in one pass
RemovePairs(lines, first, second) ==
    IF lines = <<>> THEN <<>>
    ELSE IF Len(lines) >= 2 /\ lines[1] = first /\ lines[2] = second
         THEN RemovePairs(Drop(lines, 2), first, second)
         ELSE <<lines[1]>> \o RemovePairs(Tail(lines), first, second)

\* --------------------------------------------------------- vertical lines

P_OPEN == <<"<p>">>
P_CLOSE == <<"</p>">>
S_OPEN == <<"<s>">>
S_CLOSE == <<"</s>">>
GLUE == <<"<g/>">>
DOC_OPEN == <<"<doc>">>
DOC_CLOSE == <<"</doc>">>
CHAPTER_CLOSE == <<"</chapter>">>
ChapterOpen(id, html_url) == <<"<chapter>", id, html_url>>

\* f"{text}\t{lemma}\t{pos}{suffix}\n" with suffix = "\t" + html_url
TokenLine(text, lemma, pos, suffix) == <<text, lemma, pos, suffix>>

IsTokenLine(line) == Len(line) = 4


\* Filter of a sequence of lines
RECURSIVE SelectLines(_, _)
SelectLines(lines, keep) ==
    IF lines = <<>> THEN <<>>
    ELSE (IF Head(lines) \in keep THEN <<Head(lines)>> ELSE <<>>)
         \o SelectLines(Tail(lines), keep)

\* ------------------------------------------------------------ run_udp

\* A line of the CoNLL-U payload: whether it starts with "#", whether it is
\* blank after strip(), and its tab-separated fields (line.split("\t")).
CommentLine == [hash |-> TRUE, blank |-> FALSE, parts |-> <<"# sent_id = 1">>]
BlankLine == [hash |-> FALSE, blank |-> TRUE, parts |-> <<"">>]
ShortLine == [hash |-> FALSE, blank |-> FALSE, parts |-> <<"1-2", "vom", "_">>]
ConlluToken(text, lemma, upos, misc) ==
    [hash |-> FALSE, blank |-> FALSE,
     parts |-> <<"1", text, lemma, upos, "_", "_", "0", "root", "_", misc>>]

\* "SpaceAfter=No" in parts[9]
HasSpaceAfterNo(misc) == misc \in {"SpaceAfter=No", "SpaceAfter=No|Translit=x"}

\* run_udp_line reading the flag from the column before MISC
run_udp_line_WrongColumn(line, suffix) ==
    IF line.hash \/ line.blank THEN <<>>
    ELSE IF Len(line.parts) < 10 THEN <<>>
    ELSE LET item == [text |-> line.parts[2], lemma |-> line.parts[3],
                      upos |-> line.parts[4]]
         IN IF item.text = PAR_SEP
            THEN <<S_CLOSE, P_CLOSE, P_OPEN, S_OPEN>>
            ELSE <<TokenLine(item.text, item.lemma, item.upos, suffix)>>
                 \o (IF HasSpaceAfterNo(line.parts[9]) THEN <<GLUE>> ELSE <<>>)

\* One iteration of the loop of run_udp: the lines it appends to vertical
run_udp_line(line, suffix) ==
    IF line.hash \/ line.blank THEN <<>>
    ELSE IF Len(line.parts) < 10 THEN <<>>
    ELSE LET item == [text |-> line.parts[2], lemma |-> line.parts[3],
                      upos |-> line.parts[4]]
         IN IF item.text = PAR_SEP
            THEN <<S_CLOSE, P_CLOSE, P_OPEN, S_OPEN>>
            ELSE <<TokenLine(item.text, item.lemma, item.upos, suffix)>>
                 \o (IF HasSpaceAfterNo(line.parts[10]) THEN <<GLUE>> ELSE <<>>)

RECURSIVE run_udp_loop(_, _)
run_udp_loop(result, suffix) ==
    IF result = <<>> THEN <<>>
    ELSE run_udp_line(Head(result), suffix) \o run_udp_loop(Tail(result), suffix)

\* run_udp, from the parsed response on (result = response.json()["result"])
run_udp(result, suffix) ==
    <<P_OPEN, S_OPEN>> \o run_udp_loop(result, suffix) \o <<S_CLOSE, P_CLOSE>>

\* ---------------------------------------------------------- run_spacy

\* A spaCy token: text, lemma_, pos_, is_space, is_punct, the index of its
\* sentence (token.sent) and whether whitespace follows it (whitespace_).
SpacyToken(text, lemma, pos, space, punct, sent, ws) ==
    [text |-> text, lemma_ |-> lemma, pos_ |-> pos, is_space |-> space,
     is_punct |-> punct, sent |-> sent, ws |-> ws]

RECURSIVE DocText(_)
\* The text a spaCy doc was made from: doc.text
DocText(doc) ==
    IF doc = <<>> THEN <<>>
    ELSE Chars(Head(doc).text) \o (IF Head(doc).ws THEN <<" ">> ELSE <<>>)
         \o DocText(Tail(doc))

\* One iteration of the loop of run_spacy on the state [vertical, sent, text];
\* sentences are numbered from 1 and sent = 0 stands for sent = None
run_spacy_token(st, token, suffix) ==
    IF token.is_space THEN st
    ELSE LET sent0 == IF st.sent = 0 THEN token.sent ELSE st.sent
             brk == IF sent0 # token.sent THEN <<S_CLOSE, S_OPEN>> ELSE <<>>
             glue == IF ~(st.text # <<>> /\ IsWs(Head(st.text))) /\ token.is_punct
                     THEN <<GLUE>> ELSE <<>>
             text1 == Drop(LStrip(st.text), Len(Chars(token.text)))
             tok == IF token.text = PAR_SEP
                    THEN <<S_CLOSE, P_CLOSE, P_OPEN, S_OPEN>>
                    ELSE <<TokenLine(token.text,
                                     IF ~token.is_punct THEN token.lemma_
                                     ELSE token.text,
                                     token.pos_, suffix)>>
         IN [vertical |-> st.vertical \o brk \o glue \o tok,
             sent |-> token.sent, text |-> text1]

RECURSIVE run_spacy_loop(_, _, _)
run_spacy_loop(st, doc, suffix) ==
    IF doc = <<>> THEN st
    ELSE run_spacy_loop(run_spacy_token(st, Head(doc), suffix), Tail(doc), suffix)

\* run_spacy, from doc = nlp(text) on
run_spacy(doc, text, suffix) ==
    run_spacy_loop([vertical |-> <<P_OPEN, S_OPEN>>, sent |-> 0, text |-> text],
                   doc, suffix).vertical
    \o <<S_CLOSE, P_CLOSE>>

\* ------------------------------------------------- process_tei, lines 141-148

\* the two replacements in the other order
DropEmptyElementsSwapped(processed) ==
    RemovePairs(RemovePairs(processed, P_OPEN, P_CLOSE), S_OPEN, S_CLOSE)

\* processed.replace("<s>\n</s>\n", "").replace("<p>\n</p>\n", "")
DropEmptyElements(processed) ==
    RemovePairs(RemovePairs(processed, S_OPEN, S_CLOSE), P_OPEN, P_CLOSE)

\* processed.count("\n")
CountLines(processed) == Len(processed)

\* The backend's answer to one request: the CoNLL-U payload of the remote
\* service, or the doc of the in-process pipeline.
Annotate(be, text, answer, suffix) ==
    LET raw == IF be = "udppipe" THEN run_udp(answer, suffix)
               ELSE run_spacy(answer, text, suffix)
        processed == DropEmptyElements(raw)
    IN [raw |-> raw, processed |-> processed, tokens |-> CountLines(processed)]

\* ------------------------------------- get_paragraph and the segmentation

\* A small TEI tree: each element's tag and parent (None above the root).
\* title sits in the header, outside any paragraph or body; hi sits in p1.
Elements == {"TEI", "teiHeader", "title", "text", "body", "p1", "hi", "p2"}

Tag(node) ==
    CASE node \in {"p1", "p2"} -> "{http://www.tei-c.org/ns/1.0}p"
      [] node = "body" -> "{http://www.tei-c.org/ns/1.0}body"
      [] OTHER -> node

GetParent(node) ==
    CASE node = "TEI" -> None
      [] node \in {"teiHeader", "text"} -> "TEI"
      [] node = "title" -> "teiHeader"
      [] node = "body" -> "text"
      [] node \in {"p1", "p2"} -> "body"
      [] node = "hi" -> "p1"

RECURSIVE get_paragraph(_)
get_paragraph(node) ==
    IF node # None
       /\ Tag(node) # "{http://www.tei-c.org/ns/1.0}p"
       /\ Tag(node) # "{http://www.tei-c.org/ns/1.0}body"
    THEN get_paragraph(GetParent(node))
    ELSE node

\* part = element.replace("\n", " ").replace("\r", " ").strip()
Part(element) == Strip(ReplaceBreaks(element.str))

\* One iteration of the loop of process_tei (lines 127-138) on [last_p, text];
\* an element is a text node: its characters and the element that owns it
SegmentStep(st, element) ==
    IF Part(element) = <<>> THEN st
    ELSE LET p == get_paragraph(element.parent)
             last0 == IF st.last_p = None THEN p ELSE st.last_p
         IN IF p # last0
            THEN [last_p |-> p,
                  text |-> st.text \o <<" ">> \o Chars(PAR_SEP) \o <<" ">>
                           \o Part(element) \o <<" ">>]
            ELSE [last_p |-> last0, text |-> st.text \o Part(element) \o <<" ">>]

RECURSIVE SegmentLoop(_, _)
SegmentLoop(st, elements) ==
    IF elements = <<>> THEN st
    ELSE SegmentLoop(SegmentStep(st, Head(elements)), Tail(elements))

\* process_tei, lines 124-138: the text built from the selected text nodes
Segment(elements) == SegmentLoop([last_p |-> None, text |-> <<>>], elements).text

\* ------------------------------------------- inputs of the pure functions

SeqsUpTo(S, m) == UNION {[1..l -> S] : l \in 0..m}

\* The per-document suffix of the formatter harness (f"\t{html_url}")
Suffix == "suffix"

\* Lines a remote service answers with
UdpLines ==
    {ConlluToken("a", "a", "NOUN", "_"),
     ConlluToken("a", "a", "NOUN", "SpaceAfter=No"),
     ConlluToken(".", ".", "PUNCT", "SpaceAfter=No"),
     ConlluToken(PAR_SEP, PAR_SEP, "PROPN", "_"),
     BlankLine, CommentLine, ShortLine}

IsConlluToken(line) == ~line.hash /\ ~line.blank /\ Len(line.parts) >= 10

\* process_tei writes the sentinel as " PaRaSeP ": a service that reports the
\* spacing of its input never flags the token before a sentinel SpaceAfter=No
UdpSpacingTruthful(result) ==
    \A j \in 1..Len(result) :
        (IsConlluToken(result[j]) /\ result[j].parts[2] = PAR_SEP) =>
            \A m \in 1..(j - 1) :
                (IsConlluToken(result[m])
                 /\ \A q \in (m + 1)..(j - 1) : ~IsConlluToken(result[q]))
                => ~HasSpaceAfterNo(result[m].parts[10])

\* The stub answer of the end-to-end example: "Hello world." / "Foo.", with
\* no-space-after on the final punctuation of each sentence
ExamplePayload ==
    <<CommentLine,
      ConlluToken("Hello", "hello", "INTJ", "_"),
      ConlluToken("world", "world", "NOUN", "_"),
      ConlluToken(".", ".", "PUNCT", "SpaceAfter=No"),
      BlankLine,
      ConlluToken(PAR_SEP, PAR_SEP, "PROPN", "_"),
      ConlluToken("Foo", "foo", "NOUN", "_"),
      ConlluToken(".", ".", "PUNCT", "SpaceAfter=No"),
      BlankLine>>

UdpPayloads ==
    {r \in SeqsUpTo(UdpLines, MaxStream) : UdpSpacingTruthful(r)} \cup {ExamplePayload}

\* Tokens of the in-process pipeline: a word, a punctuation mark, the
\* sentinel, a whitespace token; whether whitespace follows; whether the
\* token starts a new sentence
SpacyVariants ==
    [shape : {"word", "punct", "sep"}, ws : BOOLEAN, start : BOOLEAN]
    \cup [shape : {"space"}, ws : {FALSE}, start : {FALSE}]

\* nlp(text) for a stripped text: no whitespace token at either end, a
\* whitespace token only for whitespace beyond the single space that follows
\* a token, and the sentinel delimited by whitespace
SpacyDocOk(vs) ==
    /\ Len(vs) > 0 => /\ vs[1].shape # "space"
                      /\ ~vs[1].start
                      /\ vs[Len(vs)].shape # "space"
                      /\ ~vs[Len(vs)].ws
    /\ \A j \in 2..Len(vs) :
        /\ vs[j].shape = "space" => vs[j - 1].ws /\ vs[j - 1].shape # "space"
        /\ vs[j].shape = "sep" => vs[j - 1].ws \/ vs[j - 1].shape = "space"
    /\ \A j \in 1..Len(vs) : (vs[j].shape = "sep" /\ j < Len(vs)) => vs[j].ws

MkDoc(vs) ==
    [j \in 1..Len(vs) |->
        LET sent == 1 + Cardinality({m \in 2..j : vs[m].start})
        IN CASE vs[j].shape = "word" ->
                    SpacyToken("a", "a", "NOUN", FALSE, FALSE, sent, vs[j].ws)
             [] vs[j].shape = "punct" ->
                    SpacyToken(".", ".", "PUNCT", FALSE, TRUE, sent, vs[j].ws)
             [] vs[j].shape = "sep" ->
                    SpacyToken(PAR_SEP, PAR_SEP, "PROPN", FALSE, FALSE, sent, vs[j].ws)
             [] OTHER ->
                    SpacyToken(" ", " ", "SPACE", TRUE, FALSE, sent, vs[j].ws)]

SpacyVariantSeqs == {vs \in SeqsUpTo(SpacyVariants, MaxStream) : SpacyDocOk(vs)}

SpacyDocs == {MkDoc(vs) : vs \in SpacyVariantSeqs}

\* Text nodes a selection expression returns: whitespace only, or text
ElementStrs == {<<"\n">>, <<"a">>, <<" ", "b", "\n">>}

\* document order of the elements that own text in the tree above
DocOrder(node) ==
    CASE node = "title" -> 1 [] node = "body" -> 2 [] node = "p1" -> 3
      [] node = "hi" -> 4 [] node = "p2" -> 5

XPathResults ==
    {e \in SeqsUpTo([str : ElementStrs,
                     parent : {"title", "body", "p1", "hi", "p2"}], MaxSpans) :
        \A j \in 2..Len(e) : DocOrder(e[j - 1].parent) <= DocOrder(e[j].parent)}

\* --------------------------------------------- harness of the pure functions

Idle ==
    /\ pc = "idle" /\ args = [co |-> FALSE] /\ backend = "none" /\ k = 0
    /\ fatal = "none" /\ logged = FALSE /\ vertical = <<>> /\ docN = 0 /\ n = 0
    /\ i = 0 /\ plan = 0 /\ docStatus = <<>> /\ tokens = 0

mainVars == <<pc, args, backend, k, fatal, logged, vertical, docN, n, i, plan,
              docStatus, tokens>>

InitFmt ==
    /\ call \in {[fn |-> "run_udp", answer |-> r] : r \in UdpPayloads}
                \cup {[fn |-> "run_spacy", answer |-> d] : d \in SpacyDocs}
    /\ ret = [done |-> FALSE]
    /\ Idle

\* process_tei, lines 141-148, with the remote backend
FormatUdp ==
    /\ call.fn = "run_udp" /\ ~ret.done
    /\ ret' = [done |-> TRUE] @@ Annotate("udppipe", <<>>, call.answer, Suffix)
    /\ UNCHANGED <<call, mainVars>>

\* process_tei, lines 141-148, with the in-process backend
FormatSpacy ==
    /\ call.fn = "run_spacy" /\ ~ret.done
    /\ ret' = [done |-> TRUE]
              @@ Annotate("spacy", DocText(call.answer), call.answer, Suffix)
    /\ UNCHANGED <<call, mainVars>>

NextFmt == FormatUdp \/ FormatSpacy

SpecFmt == InitFmt /\ [][NextFmt]_vars

InitSeg ==
    /\ call \in {[fn |-> "segment", elements |-> e] : e \in XPathResults}
    /\ ret = [done |-> FALSE]
    /\ Idle

\* process_tei, lines 124-138
DoSegment ==
    /\ call.fn = "segment" /\ ~ret.done
    /\ ret' = [done |-> TRUE, text |-> Segment(call.elements)]
    /\ UNCHANGED <<call, mainVars>>

NextSeg == DoSegment

SpecSeg == InitSeg /\ [][NextSeg]_vars

\* ------------------------------------------------ claims on the formatters

HasAdjacent(lines, first, second) ==
    \E j \in 1..(Len(lines) - 1) : lines[j] = first /\ lines[j + 1] = second

CountLine(lines, line) == Cardinality({j \in 1..Len(lines) : lines[j] = line})

\* C3: for every annotated stream of either backend, the chapter body that
\* process_tei writes holds no empty sentence and no empty paragraph: no <s>
\* line directly followed by </s>, no <p> line directly followed by </p>.
C3_NoEmptyElements ==
    (call.fn \in {"run_udp", "run_spacy"} /\ ret.done) =>
        /\ ~HasAdjacent(ret.processed, S_OPEN, S_CLOSE)
        /\ ~HasAdjacent(ret.processed, P_OPEN, P_CLOSE)

\* a stream whose sentence boundary coincides with a sentinel was formatted:
\* the backend's output held empty elements and the written body holds tokens
C3_Witness ==
    /\ call.fn = "run_spacy" /\ ret.done
    /\ \E j \in 2..Len(call.answer) :
          /\ call.answer[j].text = PAR_SEP
          /\ call.answer[j].sent # call.answer[j - 1].sent
    /\ HasAdjacent(ret.raw, S_OPEN, S_CLOSE)
    /\ \E j \in 1..Len(ret.processed) : IsTokenLine(ret.processed[j])

\* The stream as the claim on glue markers sees it: per token of the backend,
\* whether it gets a token line and whether whitespace follows it
StreamItems(c) ==
    IF c.fn = "run_udp"
    THEN LET toks == SelectLines(c.answer, {l \in UdpLines \cup
                                   {c.answer[j] : j \in 1..Len(c.answer)} :
                                   IsConlluToken(l)})
         IN [j \in 1..Len(toks) |->
                [real |-> toks[j].parts[2] # PAR_SEP,
                 ws |-> ~HasSpaceAfterNo(toks[j].parts[10])]]
    ELSE [j \in 1..Len(c.answer) |->
             [real |-> ~c.answer[j].is_space /\ c.answer[j].text # PAR_SEP,
              ws |-> c.answer[j].ws \/ c.answer[j].is_space]]

RECURSIVE ExpectedGlue(_, _, _)
\* Token lines ("T") with one glue marker ("G") between two that no
\* whitespace separated in the source, and nowhere else
ExpectedGlue(items, seen, tight) ==
    IF items = <<>> THEN <<>>
    ELSE IF Head(items).real
         THEN (IF seen /\ tight THEN <<"G">> ELSE <<>>) \o <<"T">>
              \o ExpectedGlue(Tail(items), TRUE, ~Head(items).ws)
         ELSE ExpectedGlue(Tail(items), seen, tight /\ ~Head(items).ws)

RECURSIVE GlueSkeleton(_)
GlueSkeleton(lines) ==
    IF lines = <<>> THEN <<>>
    ELSE (IF IsTokenLine(Head(lines)) THEN <<"T">>
          ELSE IF Head(lines) = GLUE THEN <<"G">> ELSE <<>>)
         \o GlueSkeleton(Tail(lines))

\* C4: in the output of run_udp and of run_spacy exactly one <g/> line stands
\* between the token lines of two adjacent tokens that no whitespace separated
\* in the source, none between two that whitespace separated, and none
\* anywhere else.
C4_GluePlacement ==
    (call.fn \in {"run_udp", "run_spacy"} /\ ret.done) =>
        GlueSkeleton(ret.raw) = ExpectedGlue(StreamItems(call), FALSE, FALSE)

ExampleBody(afterPunct) ==
    <<P_OPEN, S_OPEN,
      TokenLine("Hello", "hello", "INTJ", Suffix),
      TokenLine("world", "world", "NOUN", Suffix),
      TokenLine(".", ".", "PUNCT", Suffix)>> \o afterPunct \o
    <<S_CLOSE, P_CLOSE, P_OPEN, S_OPEN,
      TokenLine("Foo", "foo", "NOUN", Suffix),
      TokenLine(".", ".", "PUNCT", Suffix)>> \o afterPunct \o
    <<S_CLOSE, P_CLOSE>>

RECURSIVE ReportedSentences(_, _)
\* The non-empty sentences of a payload: runs of token records that neither a
\* blank line nor a sentinel interrupts (open: the current run holds a token)
ReportedSentences(result, open) ==
    IF result = <<>> THEN (IF open THEN 1 ELSE 0)
    ELSE LET l == Head(result)
         IN IF l.blank \/ (IsConlluToken(l) /\ l.parts[2] = PAR_SEP)
            THEN (IF open THEN 1 ELSE 0) + ReportedSentences(Tail(result), FALSE)
            ELSE ReportedSentences(Tail(result), open \/ IsConlluToken(l))

\* C9: with the remote backend a blank line between the token records of two
\* sentences of one paragraph yields </s> <s> between their token lines, so
\* the body holds one <s> element per non-empty sentence the backend reported.
C9_SentencePerBlankLine ==
    (call.fn = "run_udp" /\ ret.done) =>
        CountLine(ret.processed, S_OPEN) = ReportedSentences(call.answer, FALSE)

\* ------------------------------------------------- claim on the segmentation

RECURSIVE Blocks(_)
\* The enclosing block of each non-empty span, in order
Blocks(elements) ==
    IF elements = <<>> THEN <<>>
    ELSE (IF Part(Head(elements)) = <<>> THEN <<>>
          ELSE <<get_paragraph(Head(elements).parent)>>)
         \o Blocks(Tail(elements))

BlockChanges(blocks) ==
    Cardinality({j \in 2..Len(blocks) : blocks[j] # blocks[j - 1]})

\* C5: the number of sentinels the segmentation loop inserts equals the
\* number of positions where a span's enclosing block (a paragraph, the body,
\* or none) differs from that of the span before it.
C5_SentinelPerBlockChange ==
    (call.fn = "segment" /\ ret.done) =>
        CountSub(ret.text, Chars(PAR_SEP)) = BlockChanges(Blocks(call.elements))

\* ------------------------------------------------------------ process_tei

\* for i in range(10)
MaxAttempts == 10

\* Where a call of process_tei can raise: the fetch (line 108), the parse of
\* the response (119), the selection (127), the backend (143, 145)
FailPoints == {"fetch", "parse", "xpath", "backend"}

\* What a fetch that succeeds brings: the text nodes the selection returns
\* and the backend's answer for their text (a payload, a doc); here a
\* document the selection matches nothing of, and one of two paragraphs
TeiDocs ==
    {[elements |-> <<>>, udp |-> <<>>, spacy |-> <<>>],
     [elements |-> <<[str |-> <<"a">>, parent |-> "p1"],
                     [str |-> <<"a">>, parent |-> "p2"]>>,
      udp |-> <<ConlluToken("a", "a", "NOUN", "_"),
                ConlluToken(PAR_SEP, PAR_SEP, "PROPN", "_"),
                ConlluToken("a", "a", "NOUN", "_")>>,
      spacy |-> MkDoc(<<[shape |-> "word", ws |-> TRUE, start |-> FALSE],
                        [shape |-> "space", ws |-> FALSE, start |-> FALSE],
                        [shape |-> "sep", ws |-> TRUE, start |-> FALSE],
                        [shape |-> "word", ws |-> FALSE, start |-> TRUE]>>)]}

\* html_url = tei_url.replace(".xml", ".html"), for the d-th document
HtmlUrl(d) == ToString(d)

\* One call of process_tei for the d-th document: whether it raised, what it
\* wrote to the file before it returned or raised, and what it added to
\* time["tokens"].  outcome is a fail point or "ok"; tei is what was fetched.
process_tei(d, be, outcome, tei) ==
    IF outcome \in {"fetch", "parse"}
    THEN [raised |-> TRUE, written |-> <<>>, tokens |-> 0]
    ELSE IF outcome \in {"xpath", "backend"}
    THEN [raised |-> TRUE, written |-> <<ChapterOpen("id", HtmlUrl(d))>>,
          tokens |-> 0]
    ELSE LET text == Strip(Segment(tei.elements))
             ann == Annotate(be, text,
                             IF be = "udppipe" THEN tei.udp ELSE tei.spacy,
                             HtmlUrl(d))
         IN [raised |-> FALSE,
             written |-> <<ChapterOpen("id", HtmlUrl(d))>> \o ann.processed
                         \o <<CHAPTER_CLOSE>>,
             tokens |-> ann.tokens]

\* --------------------------------------------------- create_vertical, main

fnVars == <<call, ret>>

Init ==
    /\ call = [fn |-> "main"] /\ ret = [done |-> FALSE]
    /\ pc = "main"
    /\ args \in [co : BOOLEAN]
    /\ backend \in {"udppipe", "spacy"}
    /\ k = 0 /\ fatal = "none" /\ logged = FALSE
    /\ vertical = <<>> /\ docN = 0 /\ n = 0 /\ i = 0 /\ plan = 0
    /\ docStatus = <<>> /\ tokens = 0

verticalVars == <<vertical, docN, n, i, plan, docStatus, tokens>>

\* The locals of create_vertical (and the environment's plan) are kept in
\* the state in which it returns; the next step of main has none of them
NoVertical ==
    /\ vertical' = <<>> /\ docN' = 0 /\ n' = 0 /\ i' = 0 /\ plan' = 0
    /\ docStatus' = <<>> /\ tokens' = 0

\* main, lines 275-301: the item is not the edition asked for with -e, or
\* its vertical exists and -s was given
SkipCorpus ==
    /\ pc = "main" /\ k < NumCorpora
    /\ k' = k + 1 /\ fatal' = "none" /\ logged' = FALSE
    /\ NoVertical
    /\ UNCHANGED <<pc, args, backend, fnVars>>

\* main, lines 281-296: val lacks a required field (or has neither docs nor
\* oai): the KeyError is raised outside any try and ends the run
MissingField ==
    /\ pc = "main" /\ k < NumCorpora
    /\ pc' = "crashed" /\ fatal' = "missing_field" /\ logged' = FALSE
    /\ NoVertical
    /\ UNCHANGED <<k, args, backend, fnVars>>

\* main, lines 302-306: create_config raises (its path cannot be opened)
ConfigFails ==
    /\ pc = "main" /\ k < NumCorpora
    /\ k' = k + 1 /\ fatal' = "config_unwritable" /\ logged' = TRUE
    /\ NoVertical
    /\ UNCHANGED <<pc, args, backend, fnVars>>

\* main, line 307: create_mquery_sru_config raises, outside any try
SruConfigFails ==
    /\ pc = "main" /\ k < NumCorpora
    /\ pc' = "crashed" /\ fatal' = "sru_config_unwritable" /\ logged' = FALSE
    /\ NoVertical
    /\ UNCHANGED <<k, args, backend, fnVars>>

\* main, lines 308-309 with --co: only the configuration files are written
ConfigOnly ==
    /\ pc = "main" /\ k < NumCorpora /\ args.co
    /\ k' = k + 1 /\ fatal' = "none" /\ logged' = FALSE
    /\ NoVertical
    /\ UNCHANGED <<pc, args, backend, fnVars>>

\* main, line 309, create_vertical, line 166: open(output_path, "w") raises
VerticalUnwritable ==
    /\ pc = "main" /\ k < NumCorpora /\ ~args.co
    /\ pc' = "crashed" /\ fatal' = "vertical_unwritable" /\ logged' = FALSE
    /\ NoVertical
    /\ UNCHANGED <<k, args, backend, fnVars>>

\* main, line 309, create_vertical, lines 166-172 (and 184-189 for a corpus
\* without documents): the file is opened and the doc marker written
StartVertical ==
    /\ pc = "main" /\ k < NumCorpora /\ ~args.co
    /\ fatal' = "none" /\ logged' = FALSE
    /\ \E N \in 0..MaxDocs :
        /\ docN' = N
        /\ docStatus' = [d \in 1..N |-> "pending"]
        /\ IF N = 0
           THEN /\ vertical' = <<DOC_OPEN, DOC_CLOSE>>
                /\ pc' = "main" /\ k' = k + 1 /\ n' = 0
           ELSE /\ vertical' = <<DOC_OPEN>>
                /\ pc' = "docs" /\ k' = k /\ n' = 1
    /\ i' = 0 /\ plan' = 0 /\ tokens' = 0
    /\ UNCHANGED <<args, backend, fnVars>>

\* for i in range(10): whether the attempts for one document are used up
LoopDoneOffByOne(made) == made >= MaxAttempts - 1
LoopDone(made) == made >= MaxAttempts

\* create_vertical, lines 173-189, once document d is left (by break or with
\* its attempts used up): the loop goes on, or the file is closed and main
\* takes the next item
LeaveDocAbandon(d, status, vert) ==
    /\ docStatus' = [docStatus EXCEPT ![d] = status]
    /\ IF d = docN \/ status = "exhausted"
       THEN /\ vertical' = (IF d = docN THEN vert \o <<DOC_CLOSE>> ELSE vert)
            /\ pc' = "main" /\ k' = k + 1
       ELSE /\ vertical' = vert
            /\ pc' = "docs" /\ k' = k
LeaveDoc(d, status, vert) ==
    /\ docStatus' = [docStatus EXCEPT ![d] = status]
    /\ IF d = docN
       THEN /\ vertical' = vert \o <<DOC_CLOSE>>
            /\ pc' = "main" /\ k' = k + 1
       ELSE /\ vertical' = vert
            /\ pc' = "docs" /\ k' = k

\* The document the next attempt is for, and the attempts made for it
CurDoc == IF docStatus[n] = "pending" THEN n ELSE n + 1
Made == IF docStatus[n] = "pending" THEN i ELSE 0

\* create_vertical, lines 173-182: one attempt that raises; the exception is
\* printed and, after the sleep, the loop goes on.  plan, the number N of
\* times the environment lets process_tei raise for the document before it
\* would succeed, is any N that agrees with what the attempts have shown.
AttemptFails ==
    /\ pc = "docs"
    /\ \E f \in FailPoints :
        LET r == process_tei(CurDoc, backend, f, <<>>)
        IN IF LoopDone(Made + 1)
           THEN /\ LeaveDoc(CurDoc, "exhausted", vertical \o r.written)
                /\ plan' \in (Made + 1)..MaxFail
           ELSE /\ vertical' = vertical \o r.written
                /\ docStatus' = docStatus /\ pc' = pc /\ k' = k
                /\ plan' = Made + 1
    /\ n' = CurDoc /\ i' = Made + 1
    /\ UNCHANGED <<args, backend, fatal, logged, docN, tokens, fnVars>>

\* create_vertical, lines 173-178: one attempt that returns True, after
\* plan = Made attempts that raised
AttemptSucceeds ==
    /\ pc = "docs"
    /\ \E tei \in TeiDocs :
        LET r == process_tei(CurDoc, backend, "ok", tei)
        IN /\ LeaveDoc(CurDoc, "success", vertical \o r.written)
           /\ tokens' = tokens + r.tokens
    /\ plan' = Made
    /\ n' = CurDoc /\ i' = Made + 1
    /\ UNCHANGED <<args, backend, fatal, logged, docN, fnVars>>

\* main returns after the last item
MainReturns ==
    /\ pc = "main" /\ k = NumCorpora
    /\ pc' = "exit"
    /\ NoVertical
    /\ UNCHANGED <<k, args, backend, fatal, logged, fnVars>>

Next ==
    \/ SkipCorpus \/ MissingField \/ ConfigFails \/ SruConfigFails
    \/ ConfigOnly \/ VerticalUnwritable \/ StartVertical
    \/ AttemptFails \/ AttemptSucceeds \/ MainReturns

Spec == Init /\ [][Next]_vars

\* create_vertical on its own, from line 172 on: the file is open, the doc
\* marker written, and the corpus has N documents
InitVertical ==
    /\ call = [fn |-> "create_vertical"] /\ ret = [done |-> FALSE]
    /\ args = [co |-> FALSE]
    /\ backend \in {"udppipe", "spacy"}
    /\ k = 0 /\ fatal = "none" /\ logged = FALSE
    /\ docN \in 1..MaxDocs
    /\ docStatus = [d \in 1..docN |-> "pending"]
    /\ vertical = <<DOC_OPEN>> /\ pc = "docs"
    /\ n = 1 /\ i = 0 /\ plan = 0 /\ tokens = 0

NextVertical == AttemptFails \/ AttemptSucceeds

\* The interpreter runs the loop to its end: the sleeps and the requests
\* block and return
SpecVertical == InitVertical /\ [][NextVertical]_vars /\ WF_vars(NextVertical)

\* ------------------------------------------------ claims on create_vertical

Last(seq) == seq[Len(seq)]

\* C6: when a document fails on all 10 attempts, every later document of the
\* corpus is still attempted and the closing doc marker is eventually written
\* as the last line of the file.
C6_ExhaustionNotFatal ==
    (\E d \in 1..docN : docStatus[d] = "exhausted")
    ~> (/\ pc # "docs"
        /\ \A e \in 1..docN : docStatus[e] # "pending"
        /\ vertical # <<>> /\ Last(vertical) = DOC_CLOSE)


\* a corpus whose first document was exhausted and whose second succeeded
\* has been closed
C6_Witness ==
    /\ pc # "docs" /\ docN = 2
    /\ docStatus = <<"exhausted", "success">>
    /\ Last(vertical) = DOC_CLOSE

Successes == Cardinality({d \in 1..docN : docStatus[d] = "success"})

\* C1: a document whose process_tei raises N times and then succeeds ends in
\* success iff N < 10 and is exhausted, with no successful attempt, iff
\* N >= 10; never are more than 10 attempts made for one document.
C1_RetryBound ==
    /\ i <= 10
    /\ CountLine(vertical, CHAPTER_CLOSE) = Successes
    /\ (n >= 1 /\ docStatus[n] # "pending") =>
          /\ docStatus[n] = "success" <=> plan < 10
          /\ docStatus[n] = "exhausted" <=> plan >= 10
          /\ docStatus[n] = "success" => i = plan + 1

\* a document with N = 11 was exhausted, and the next one, with N = 9,
\* succeeded on the tenth attempt
C1_Witness ==
    /\ docN = 2 /\ n = 2 /\ i = 10 /\ plan = 9
    /\ docStatus = <<"exhausted", "success">>

IsChapterOpen(line) == Len(line) = 3 /\ line[1] = "<chapter>"

RECURSIVE ChaptersNested(_, _)
\* Every chapter opening line is followed by its closing line before another
\* chapter opens and before the file ends
ChaptersNested(lines, open) ==
    IF lines = <<>> THEN ~open
    ELSE IF IsChapterOpen(Head(lines)) THEN ~open /\ ChaptersNested(Tail(lines), TRUE)
    ELSE IF Head(lines) = CHAPTER_CLOSE THEN open /\ ChaptersNested(Tail(lines), FALSE)
    ELSE ChaptersNested(Tail(lines), open)

Closed == vertical # <<>> /\ Last(vertical) = DOC_CLOSE

\* C2: when the closing doc marker is written the file holds exactly one
\* chapter opening line per document that reached success, each followed by
\* its own closing line before any other chapter opens, and none left
\* unclosed by a failed attempt.
C2_ChaptersOneToOne ==
    Closed =>
        /\ Cardinality({j \in 1..Len(vertical) : IsChapterOpen(vertical[j])})
           = Successes
        /\ ChaptersNested(vertical, FALSE)

\* C10: the token count reported at the end of create_vertical equals the
\* number of token lines written into the chapters of the file, structural
\* tag lines and glue markers not counted.
C10_TokenCount ==
    Closed =>
        tokens = Cardinality({j \in 1..Len(vertical) : IsTokenLine(vertical[j])})

\* C7: a fatal configuration failure of one corpus (a required field missing,
\* an output path that cannot be opened) is logged and main goes on with the
\* next corpus.
C7_FatalConfigSkipsCorpus ==
    fatal # "none" => logged /\ pc # "crashed"

=============================================================================
